---- MODULE Spec2Model ----
(***************************************************************************)
(* The control architecture of the personal agent:                         *)
(*   - the tool dispatcher            (agent/tools/__init__.py, run_tool)  *)
(*   - the top-level orchestrator     (agent/claude_agent.py, run_agent)   *)
(*   - the browser-control sub-agent  (agent/tools/apply_to_job.py,        *)
(*                                     _run_computer_use_loop)             *)
(* Python str values are TLA+ strings; f-strings and str.join are built    *)
(* with \o, so that "contains" and "equals" are decided on the text.       *)
(***************************************************************************)
EXTENDS Integers, Sequences, FiniteSets, TLC

VARIABLES
    \* ---- run_agent (claude_agent.py) ----
    pc,               \* "call" | "tools" | "returned" | "raised"
    exit,             \* how run_agent ended: "" | "stop" | "budget" |
                      \* "model_error" | "tool_error"
    round,            \* iterations of `for _ in range(MAX_TOOL_ROUNDS)` started
    response,         \* the response being processed: content and stop_reason
    text_parts,       \* text of the text blocks of the last response
    tool_uses,        \* tool_use blocks of the response being processed
    tool_results,     \* tool_result blocks built so far in this iteration
    tool_envs,        \* what the outside world did on each executed tool call
    ti,               \* index in tool_uses of the next tool to execute
    messages,         \* the most recently appended turns of the conversation:
                      \* from the last appended assistant turn on (initially
                      \* the user's message).  The list is append-only and
                      \* run_agent never reads it back.  A tool block is
                      \* recorded by its type and call identifier.
    nMessages,        \* len(messages): every turn ever appended
    file_attachment,  \* None or the attachment dict
    result,           \* None or the dict run_agent returned
    called,           \* ids of the tool_use blocks for which run_tool invoked
                      \* a registered callable, this iteration, in order
    lastPdf,          \* what the last compile_latex call that answered 200 with
                      \* content produced: payload, filename, mimetype
    pdfMade           \* some compile_latex call of this run answered 200
                      \* with a non-empty body

\* response, tool_uses, tool_results, ti are rebound at the top of every
\* iteration before any read (claude_agent.py lines 28, 38, 39, 57); the
\* model holds them empty between iterations.  text_parts is read after the
\* loop (line 81) and is kept.
agentVars == <<pc, exit, round, response, text_parts, tool_uses, tool_results,
               tool_envs, ti, messages, nMessages, file_attachment, result,
               called, pdfMade, lastPdf>>

\* ---- _run_computer_use_loop (tools/apply_to_job.py) ----
VARIABLES
    cu_pc,            \* "idle" | "launch" | "newpage" | "goto" | "navfail" |
                      \* "screenshot0" | "call" | "actions" | "close" |
                      \* "done" | "raised"
    created,          \* pw.chromium.launch returned a browser
    closeCount,       \* calls of browser.close()
    cu_exit,          \* why the loop was left: "" | "navfail" (the except
                      \* arm of page.goto) | "final" (break) | "budget"
                      \* (range exhausted)
    shotTaken,        \* some page.screenshot() returned
    acted,            \* some action of the model was taken up for execution
    iteration,        \* iterations of `for iteration in range(MAX_ITERATIONS)`
                      \* started: the calls of client.beta.messages.create
    cu_response,      \* content of the response being processed
    cu_tool_uses,     \* its tool_use blocks
    cu_text_parts,    \* its texts
    cu_tool_results,  \* tool_result blocks built so far in this iteration
    cu_failed,        \* for each of them, whether the except arm of line 417
                      \* built it
    browser_calls,    \* the calls on the page that returned during the last
                      \* pass of `for tool_use in tool_uses`, in order
    ai,               \* index in cu_tool_uses of the next action
    cu_messages,      \* the most recently appended turns, as for run_agent
    mouse,            \* <<mouse_x, mouse_y>>
    summary,          \* the local `summary`
    cu_result,        \* the str _run_computer_use_loop returned, once
                      \* cu_pc = "done"
    cu_error,         \* the exception that left it, once cu_pc = "raised"
    uploading         \* a _handle_filechooser task started by
                      \* asyncio.ensure_future has not finished

\* cu_response, cu_tool_uses, cu_text_parts, cu_tool_results are rebound in
\* every iteration before any read (apply_to_job.py 164, 174, 175, 186); the
\* model holds them empty between iterations.  mouse and summary are bound
\* at lines 159-160 and not read before.
subVars == <<cu_pc, created, closeCount, cu_exit, shotTaken, acted, iteration,
             cu_response, cu_tool_uses, cu_text_parts, cu_tool_results, ai,
             cu_messages, mouse, summary, cu_result, cu_error, uploading,
             cu_failed, browser_calls>>

\* ---- apply_to_job (tools/apply_to_job.py) ----
VARIABLES
    ap_pc,            \* "idle" | "entry" | "worker" (blocked in
                      \* Future.result) | "joining" (TimeoutError raised,
                      \* blocked in the executor's __exit__) | "direct"
                      \* (in run_until_complete) | "fallback" (in the
                      \* asyncio.run of the except arm) | "returned" | "raised"
    loop_state,       \* the event loop of the calling thread: "running" |
                      \* "stopped" | "none" (get_event_loop raises RuntimeError)
    driver,           \* the thread and the event loop that drive, or last
                      \* drove, the coroutine of _run_computer_use_loop
    runs,             \* coroutines of _run_computer_use_loop started
    expired,          \* 300 s have passed since apply_to_job was entered
    ap_result,        \* the str apply_to_job returned, once ap_pc = "returned"
    ap_error          \* the exception that left it, once ap_pc = "raised"

applyVars == <<ap_pc, loop_state, driver, runs, expired, ap_result, ap_error>>

\* ---- the stored resume (tools/update_resume.py, tools/apply_to_job.py) ----
VARIABLES
    resume_file,      \* the file at RESUME_PATH
    resume_writer,    \* the sender whose request last wrote it ("" before)
    last_read,        \* the latest read of it by apply_to_job: for which
                      \* sender, and what was there, written for whom
    tool_out,         \* the str the latest of these tool calls returned
    last_update       \* the latest update_resume call: its argument, the
                      \* file before it and the str it returned

storeVars == <<resume_file, resume_writer, last_read, tool_out, last_update>>

\* ---- the webhook (main.py) ----
VARIABLES
    conversations,    \* main.py 15: for each sender the stored history (a
                      \* defaultdict(list): [] for a sender not yet seen)
    served,           \* the requests handled so far, in order, each with the
                      \* status of its answer
    http              \* the answer to the latest request

webVars == <<conversations, served, http>>

vars == <<agentVars, subVars, applyVars, storeVars, webVars>>

\* ------------------------------------------------------------------ bounds
MaxBlocks == 2          \* content blocks in one response to run_agent
MaxActions == 2         \* tool_use blocks in one response to the sub-agent

\* -------------------------------------------------------- program constants
MAX_TOOL_ROUNDS == 10
MAX_ITERATIONS == 30
DISPLAY_WIDTH == 1280
DISPLAY_HEIGHT == 800

None == [none |-> TRUE]

\* an exception: its class and str(e)
Exc(cls, msg) == [cls |-> cls, msg |-> msg]
NoExc == Exc("", "")

\* ------------------------------------------------------------ str helpers
\* `sub in s` on Python strings
Contains(s, sub) ==
    \E i \in 1..(Len(s) - Len(sub) + 1) : SubSeq(s, i, i + Len(sub) - 1) = sub

\* sep.join(parts)
RECURSIVE Join(_, _)
Join(sep, parts) ==
    IF parts = <<>> THEN ""
    ELSE IF Len(parts) = 1 THEN parts[1]
    ELSE parts[1] \o sep \o Join(sep, Tail(parts))

\* "".join(parts): plain concatenation, used to state claims
RECURSIVE Concat(_)
Concat(parts) == IF parts = <<>> THEN "" ELSE parts[1] \o Concat(Tail(parts))

\* --------------------------------------------------------------- json
\* The dicts the tools serialise.  A dict is a record; json.dumps writes its
\* keys in insertion order.
KeyOrder == <<"success", "pdf_base64", "filename", "error", "log">>

RenderValue(k, v) ==
    IF k = "success" THEN (IF v THEN "true" ELSE "false")
    ELSE "\"" \o v \o "\""

RECURSIVE RenderFields(_, _)
RenderFields(d, keys) ==
    IF keys = <<>> THEN <<>>
    ELSE IF keys[1] \in DOMAIN d
         THEN <<"\"" \o keys[1] \o "\": " \o RenderValue(keys[1], d[keys[1]])>>
              \o RenderFields(d, Tail(keys))
         ELSE RenderFields(d, Tail(keys))

json_dumps(d) == "{" \o Join(", ", RenderFields(d, KeyOrder)) \o "}"

\* base64.b64encode(b).decode() on the byte strings of the model
Bytes == {"", "%PDF"}
b64encode(b) == IF b = "" THEN "" ELSE "JVBERg=="

\* ------------------------------------------------------- tool callables
\* What a callable does: it returns a str or raises an Exception.
Return(v) == [kind |-> "return", value |-> v]
Raise(m) == [kind |-> "raise", msg |-> m]

NoJson == [none |-> TRUE]

\* What the compile service can answer to httpx.post: a response, or a
\* transport error raised by httpx.
HttpEnvs ==
    { [kind |-> "response", status |-> 200, content |-> b, json |-> NoJson] :
          b \in Bytes }
    \cup { [kind |-> "response", status |-> 400, content |-> "{...}",
            json |-> [message |-> "Undefined control sequence",
                      log |-> "! Undefined control sequence."]],
           [kind |-> "response", status |-> 500, content |-> "oops",
            json |-> NoJson],
           [kind |-> "error", msg |-> "connection refused"] }

\* dict.get(key, default)
Get(d, key, default) == IF key \in DOMAIN d THEN d[key] ELSE default

\* the dict compile_latex serialises for a response
CompileDict(filename, env) ==
    IF env.status = 200
    THEN [success |-> TRUE,
          pdf_base64 |-> b64encode(env.content),
          filename |-> filename \o ".pdf"]
    ELSE IF env.json # NoJson
    THEN [success |-> FALSE,
          error |-> Get(env.json, "message", "Compilation failed"),
          log |-> Get(env.json, "log", "")]
    ELSE [success |-> FALSE,
          error |-> "HTTP " \o ToString(env.status) \o ": " \o env.content]

compile_latex(input, env) ==
    LET filename == Get(input, "filename", "document") IN
    IF env.kind = "error" THEN Raise(env.msg)
    ELSE Return(json_dumps(CompileDict(filename, env)))

\* every dict whose serialisation can occur as a tool result
JsonDicts ==
    { CompileDict(f, e) : f \in {"document", "cv"},
                          e \in {h \in HttpEnvs : h.kind = "response"} }

\* json.loads(s): the dict, or JSONDecodeError
json_loads(s) ==
    IF \E d \in JsonDicts : json_dumps(d) = s
    THEN [ok |-> TRUE, value |-> CHOOSE d \in JsonDicts : json_dumps(d) = s]
    ELSE [ok |-> FALSE]

\* What subprocess.run can do for run_command.
CmdEnvs ==
    { [kind |-> "done", stdout |-> "file.txt", stderr |-> "warning",
       returncode |-> 0],
      [kind |-> "done",
       stdout |-> json_dumps([success |-> TRUE, pdf_base64 |-> "JVBERg==",
                              filename |-> "cv.pdf"]),
       stderr |-> "", returncode |-> 0],
      [kind |-> "timeout"] }

run_command(input, env) ==
    IF env.kind = "timeout" THEN Return("Command timed out after 30s")
    ELSE IF env.kind = "error" THEN Return("Error: " \o env.msg)
    ELSE LET o1 == env.stdout
             o2 == IF env.stderr # ""
                   THEN o1 \o (IF o1 # "" THEN "\n" ELSE "") \o env.stderr
                   ELSE o1
             o3 == IF o2 = ""
                   THEN "(no output, exit code " \o ToString(env.returncode) \o ")"
                   ELSE o2
         IN Return(IF Len(o3) > 3000
                   THEN SubSeq(o3, 1, 3000) \o "\n... (truncated)"
                   ELSE o3)

\* A callable the orchestrator sees only as "returns a str or raises".
OpaqueEnvs == { [kind |-> "ok", value |-> "done"],
                [kind |-> "error", msg |-> "network down"] }

opaque_tool(input, env) ==
    IF env.kind = "error" THEN Raise(env.msg) ELSE Return(env.value)

\* The registry: name -> the parameters of the registered function
\* (required, optional); the function itself is dispatched in CallFunction.
TOOLS ==
    [web_search    |-> [req |-> {"query"}, opt |-> {"max_results"}],
     compile_latex |-> [req |-> {"latex_content"}, opt |-> {"filename"}],
     run_command   |-> [req |-> {"command"}, opt |-> {}],
     apply_to_job  |-> [req |-> {"job_url"}, opt |-> {"resume_path"}],
     update_resume |-> [req |-> {"attachment_base64"}, opt |-> {}]]

\* Python binds **input to the parameters, or raises TypeError
Binds(name, input) ==
    /\ TOOLS[name].req \subseteq DOMAIN input
    /\ DOMAIN input \subseteq (TOOLS[name].req \cup TOOLS[name].opt)

\* the outcomes the outside world can give the callable `name`
NoEnv == [kind |-> "none"]
Envs(name) ==
    IF name = "compile_latex" THEN HttpEnvs
    ELSE IF name = "run_command" THEN CmdEnvs
    ELSE IF name \in DOMAIN TOOLS THEN OpaqueEnvs
    ELSE {NoEnv}

\* TOOLS[name]["function"](**input)
CallFunction(name, input, env) ==
    IF ~Binds(name, input)
    THEN Raise(name \o "() got an unexpected keyword argument")
    ELSE IF name = "compile_latex" THEN compile_latex(input, env)
    ELSE IF name = "run_command" THEN run_command(input, env)
    ELSE opaque_tool(input, env)

\* run_tool(name, input): what it hands back (a returned str, or an
\* exception that left it) and whether it invoked a registered callable.
run_tool_NoLookup(name, input, env) ==
    IF name \notin DOMAIN TOOLS
    THEN [kind |-> "return",
          value |-> "Error running " \o name \o ": '" \o name \o "'",
          invoked |-> FALSE]
    ELSE LET r == CallFunction(name, input, env) IN
         IF r.kind = "return"
         THEN [kind |-> "return", value |-> r.value, invoked |-> TRUE]
         ELSE [kind |-> "return",
               value |-> "Error running " \o name \o ": " \o r.msg,
               invoked |-> TRUE]

run_tool_NoCatch(name, input, env) ==
    IF name \notin DOMAIN TOOLS
    THEN [kind |-> "return", value |-> "Error: Unknown tool '" \o name \o "'",
          invoked |-> FALSE]
    ELSE LET r == CallFunction(name, input, env) IN
         IF r.kind = "return"
         THEN [kind |-> "return", value |-> r.value, invoked |-> TRUE]
         ELSE [kind |-> "raise", value |-> r.msg, invoked |-> TRUE]

run_tool(name, input, env) ==
    IF name \notin DOMAIN TOOLS
    THEN [kind |-> "return", value |-> "Error: Unknown tool '" \o name \o "'",
          invoked |-> FALSE]
    ELSE LET r == CallFunction(name, input, env) IN
         IF r.kind = "return"
         THEN [kind |-> "return", value |-> r.value, invoked |-> TRUE]
         ELSE [kind |-> "return",
               value |-> "Error running " \o name \o ": " \o r.msg,
               invoked |-> TRUE]

\* ------------------------------------------------------------ run_agent
Texts == {"a", "b"}
RequestedNames == {"compile_latex", "run_command", "nope"}
\* the inputs the model sends with a tool name: for compile_latex with and
\* without the optional filename, and one whose keys are another tool's
InputsFor(name) ==
    IF name = "compile_latex"
    THEN { [latex_content |-> "tex", filename |-> "cv"],
           [latex_content |-> "tex"],
           [command |-> "ls"] }
    ELSE { [command |-> "ls"] }
StopReasons == {"end_turn", "tool_use"}

\* The blocks a response can carry; call identifiers are given by WithIds.
BlockKinds ==
    { [type |-> "text", text |-> t] : t \in Texts }
    \cup UNION { { [type |-> "tool_use", name |-> n, input |-> i] :
                       i \in InputsFor(n) } : n \in RequestedNames }

Contents == UNION { [1..n -> BlockKinds] : n \in 0..MaxBlocks }

\* The API gives every tool_use block an identifier of its own.
WithIds(content, r) ==
    [i \in DOMAIN content |->
        IF content[i].type = "tool_use"
        THEN [type |-> "tool_use", id |-> <<r, i>>,
              name |-> content[i].name, input |-> content[i].input]
        ELSE content[i]]

RECURSIVE TextParts(_)
TextParts(content) ==
    IF content = <<>> THEN <<>>
    ELSE IF Head(content).type = "text"
         THEN <<Head(content).text>> \o TextParts(Tail(content))
         ELSE TextParts(Tail(content))

ToolUses(content) == SelectSeq(content, LAMBDA b : b.type = "tool_use")

\* `for _ in range(MAX_TOOL_ROUNDS)`: another iteration starts
LoopContinues_OneMore(r) == r <= MAX_TOOL_ROUNDS
LoopContinues(r) == r < MAX_TOOL_ROUNDS

\* `response.stop_reason == "end_turn" or not tool_uses`
Terminates_OnlyWithoutTools(stop_reason, tu) == tu = <<>>
Terminates(stop_reason, tu) == stop_reason = "end_turn" \/ tu = <<>>

NoResponseText == "I couldn't generate a response."
TooManyText == "I used too many tool calls. Please try a simpler question."

\* `"\n".join(text_parts) if text_parts else fallback`
FinalText_Concat(tp, fallback) == Concat(tp)
FinalText_AlwaysFallback(tp, fallback) == fallback
FinalText(tp, fallback) == IF tp # <<>> THEN Join("\n", tp) ELSE fallback

\* result = {"text": text}; if file_attachment: result["file"] = ...
MakeResult_NoFile(text, fa) == [text |-> text]
MakeResult(text, fa) ==
    IF fa # None THEN [text |-> text, file |-> fa] ELSE [text |-> text]

\* what is recorded of a turn
Recorded(b) ==
    IF b.type = "text" THEN b
    ELSE IF b.type = "tool_use" THEN [type |-> "tool_use", id |-> b.id]
    ELSE IF b.type = "tool_result"
    THEN [type |-> "tool_result", tool_use_id |-> b.tool_use_id]
    ELSE [type |-> b.type]

Turn(role, content) ==
    [role |-> role, content |-> [i \in DOMAIN content |-> Recorded(content[i])]]

ToolResultBlock_FirstId(tu, content) ==
    [type |-> "tool_result", tool_use_id |-> <<tu.id[1], 1>>, content |-> content]
ToolResultBlock(tu, content) ==
    [type |-> "tool_result", tool_use_id |-> tu.id, content |-> content]

\* "Check if compile_latex returned a PDF": the new value of file_attachment
Capture_AnyJson(name, res, current) ==
    LET parsed == json_loads(res) IN
    IF name = "compile_latex" /\ parsed.ok
    THEN [base64 |-> Get(parsed.value, "pdf_base64", ""),
          filename |-> Get(parsed.value, "filename", "document.pdf"),
          mimetype |-> "application/pdf"]
    ELSE current
Capture_KeepsFirst(name, res, current) ==
    IF name # "compile_latex" \/ current # None THEN current
    ELSE LET parsed == json_loads(res) IN
         IF ~parsed.ok THEN current
         ELSE IF /\ "success" \in DOMAIN parsed.value
                 /\ parsed.value.success
                 /\ "pdf_base64" \in DOMAIN parsed.value
                 /\ parsed.value.pdf_base64 # ""
              THEN [base64 |-> parsed.value.pdf_base64,
                    filename |-> Get(parsed.value, "filename", "document.pdf"),
                    mimetype |-> "application/pdf"]
              ELSE current
Capture(name, res, current) ==
    IF name # "compile_latex" THEN current
    ELSE LET parsed == json_loads(res) IN
         IF ~parsed.ok THEN current
         ELSE IF /\ "success" \in DOMAIN parsed.value
                 /\ parsed.value.success
                 /\ "pdf_base64" \in DOMAIN parsed.value
                 /\ parsed.value.pdf_base64 # ""
              THEN [base64 |-> parsed.value.pdf_base64,
                    filename |-> Get(parsed.value, "filename", "document.pdf"),
                    mimetype |-> "application/pdf"]
              ELSE current

UserMessages == {"hi"}

\* ------------------------------------------- the stored resume and its tools
RESUME_PATH == "/app/data/resume.pdf"

\* the file at RESUME_PATH
Missing == [exists |-> FALSE]
Stored(bytes) == [exists |-> TRUE, content |-> bytes]

PdfA == "%PDF-1.4 A"
PdfB == "%PDF-1.4 B"

\* base64.b64decode on the strings the model sends; "abc" has no padding
B64Table ==
    ("JVBERi0xLjQgQQ==" :> PdfA) @@ ("JVBERi0xLjQgQg==" :> PdfB) @@
    ("JVBERjEuNA==" :> "%PDF1.4") @@ ("JVBERg==" :> "%PDF") @@
    ("aGVsbG8=" :> "hello")

AttachmentStrings == DOMAIN B64Table \cup {"abc"}

b64decode(s) ==
    IF s \in DOMAIN B64Table THEN Return(B64Table[s])
    ELSE Raise("Incorrect padding")

\* b[:n]
Take(b, n) == SubSeq(b, 1, IF Len(b) < n THEN Len(b) ELSE n)

\* f"{n / 1024:.1f}"
FormatKb(n) ==
    LET tenths == (n * 20 + 1024) \div 2048
    IN ToString(tenths \div 10) \o "." \o ToString(tenths % 10)

\* pdftotext: not installed, no text in the file, or the text of the file
PdfToTextEnvs == {"missing", "empty", "text"}
TextOf(bytes) == "Resume " \o SubSeq(bytes, Len(bytes), Len(bytes)) \o "\nEngineer"

\* line 38: `pdf_bytes[:5] == b"%PDF-"`
ValidPdf_Signature4(bytes) == Take(bytes, 4) = "%PDF"
ValidPdf(bytes) == Take(bytes, 5) = "%PDF-"

\* update_resume(attachment_base64): the str it returns, whether it wrote
\* the file at RESUME_PATH, and the file afterwards ("--" stands for the
\* em dash of line 35)
update_resume(input, env, file) ==
    LET d == b64decode(input.attachment_base64) IN
    IF d.kind = "raise"
    THEN [value |-> "Error: Invalid base64 data -- " \o d.msg,
          wrote |-> FALSE, file |-> file]
    ELSE IF ~ValidPdf(d.value)
    THEN [value |-> "Error: The attachment does not appear to be a valid PDF file.",
          wrote |-> FALSE, file |-> file]
    ELSE [value |-> "Resume updated successfully (" \o FormatKb(Len(d.value))
                    \o " KB)."
                    \o (IF env = "text" THEN " Extracted 2 lines of text." ELSE "")
                    \o " It will be used for future job applications.",
          wrote |-> TRUE, file |-> Stored(d.value)]

\* _extract_resume_text(resume_path) on the file at that path
extract_resume_text(path, env, file) ==
    IF env = "text" /\ file.exists THEN TextOf(file.content)
    ELSE IF file.exists
    THEN "[Resume PDF exists at " \o path
         \o " but text extraction is unavailable. Use the file for uploads.]"
    ELSE "[No resume file found. Ask the user to provide their details or upload a resume.]"

\* the senders whose requests are served
Senders == {"alice", "bob"}

NoRead == [by |-> "", writer |-> "", file |-> Missing]
NoUpdate == [b64 |-> "", before |-> Missing, out |-> ""]

StoreIdle ==
    /\ resume_file = Missing
    /\ resume_writer = ""
    /\ last_read = NoRead
    /\ tool_out = ""
    /\ last_update = NoUpdate

\* no request yet
NoAnswer == [status |-> 0]
WebIdle ==
    /\ conversations = [s \in Senders |-> <<>>]
    /\ served = <<>>
    /\ http = NoAnswer

\* no apply_to_job call
NoDriver == [thread |-> "", loop |-> ""]
ApplyIdle ==
    /\ ap_pc = "idle"
    /\ loop_state = "none"
    /\ driver = NoDriver
    /\ runs = 0
    /\ expired = FALSE
    /\ ap_result = ""
    /\ ap_error = NoExc

\* no sub-agent run
SubIdle ==
    /\ cu_pc = "idle"
    /\ created = FALSE
    /\ closeCount = 0
    /\ cu_exit = ""
    /\ shotTaken = FALSE
    /\ acted = FALSE
    /\ iteration = 0
    /\ cu_response = <<>>
    /\ cu_tool_uses = <<>>
    /\ cu_text_parts = <<>>
    /\ cu_tool_results = <<>>
    /\ ai = 0
    /\ cu_messages = <<>>
    /\ mouse = <<0, 0>>
    /\ summary = ""
    /\ cu_result = ""
    /\ cu_error = NoExc
    /\ uploading = FALSE
    /\ cu_failed = <<>>
    /\ browser_calls = <<>>

Init ==
    /\ ApplyIdle
    /\ StoreIdle
    /\ WebIdle
    /\ pc = "call"
    /\ exit = ""
    /\ round = 0
    /\ response = None
    /\ text_parts = <<>>
    /\ tool_uses = <<>>
    /\ tool_results = <<>>
    /\ tool_envs = <<>>
    /\ ti = 0
    /\ \E m \in UserMessages :
          messages = <<Turn("user", <<[type |-> "text", text |-> m]>>)>>
    /\ nMessages = 1
    /\ file_attachment = None
    /\ result = None
    /\ called = <<>>
    /\ pdfMade = FALSE
    /\ lastPdf = None
    /\ SubIdle

\* client.messages.create(...) returns; the response is partitioned and
\* either ends the run or is appended as the assistant turn.
ModelCall ==
    /\ pc = "call"
    /\ LoopContinues(round)
    /\ \E c \in Contents, sr \in StopReasons :
          LET content == WithIds(c, round + 1)
              tp == TextParts(content)
              tu == ToolUses(content)
          IN /\ round' = round + 1
             /\ response' = [content |-> content, stop_reason |-> sr]
             /\ text_parts' = tp
             /\ tool_uses' = tu
             /\ tool_results' = <<>>
             /\ tool_envs' = <<>>
             /\ called' = <<>>
             /\ IF Terminates(sr, tu)
                THEN /\ pc' = "returned"
                     /\ exit' = "stop"
                     /\ result' = MakeResult(FinalText(tp, NoResponseText),
                                             file_attachment)
                     /\ UNCHANGED <<messages, nMessages, ti>>
                ELSE /\ pc' = "tools"
                     /\ messages' = <<Turn("assistant", content)>>
                     /\ nMessages' = nMessages + 1
                     /\ ti' = 1
                     /\ UNCHANGED <<exit, result>>
    /\ UNCHANGED <<file_attachment, pdfMade, lastPdf>>
    /\ UNCHANGED <<subVars, applyVars, storeVars, webVars>>

\* client.messages.create(...) raises: nothing in run_agent catches it.
ModelCallFails ==
    /\ pc = "call"
    /\ LoopContinues(round)
    /\ round' = round + 1
    /\ pc' = "raised"
    /\ exit' = "model_error"
    /\ UNCHANGED <<response, text_parts, tool_uses, tool_results, tool_envs, ti,
                   messages, nMessages, file_attachment, result, called, pdfMade,
                   lastPdf>>
    /\ UNCHANGED <<subVars, applyVars, storeVars, webVars>>

\* one pass of `for tool_use in tool_uses`
ExecTool ==
    /\ pc = "tools"
    /\ ti <= Len(tool_uses)
    /\ LET tu == tool_uses[ti] IN
       \E env \in Envs(tu.name) :
          LET r == run_tool(tu.name, tu.input, env) IN
          /\ tool_envs' = Append(tool_envs, env)
          /\ called' = IF r.invoked THEN Append(called, tu.id) ELSE called
          /\ pdfMade' = (pdfMade \/ (/\ tu.name = "compile_latex"
                                     /\ Binds(tu.name, tu.input)
                                     /\ env.kind = "response"
                                     /\ env.status = 200
                                     /\ env.content # ""))
          /\ lastPdf' = IF /\ tu.name = "compile_latex"
                           /\ Binds(tu.name, tu.input)
                           /\ env.kind = "response"
                           /\ env.status = 200
                           /\ env.content # ""
                        THEN [base64 |-> b64encode(env.content),
                              filename |-> Get(tu.input, "filename", "document")
                                              \o ".pdf",
                              mimetype |-> "application/pdf"]
                        ELSE lastPdf
          /\ IF r.kind = "raise"
             THEN /\ pc' = "raised"
                  /\ exit' = "tool_error"
                  /\ UNCHANGED <<tool_results, file_attachment, ti>>
             ELSE /\ tool_results' =
                        Append(tool_results, ToolResultBlock(tu, r.value))
                  /\ file_attachment' = Capture(tu.name, r.value, file_attachment)
                  /\ ti' = ti + 1
                  /\ UNCHANGED <<pc, exit>>
    /\ UNCHANGED <<round, response, text_parts, tool_uses, messages, nMessages,
                   result>>
    /\ UNCHANGED <<subVars, applyVars, storeVars, webVars>>

\* messages.append({"role": "user", "content": tool_results}); next iteration
AppendToolResults ==
    /\ pc = "tools"
    /\ ti > Len(tool_uses)
    /\ messages' = Append(messages, Turn("user", tool_results))
    /\ nMessages' = nMessages + 1
    /\ pc' = "call"
    /\ response' = None
    /\ tool_uses' = <<>>
    /\ tool_results' = <<>>
    /\ tool_envs' = <<>>
    /\ ti' = 0
    /\ UNCHANGED <<exit, round, text_parts, file_attachment, result, called,
                   pdfMade, lastPdf>>
    /\ UNCHANGED <<subVars, applyVars, storeVars, webVars>>

\* the for loop is exhausted: lines 81-85
BudgetExhausted ==
    /\ pc = "call"
    /\ ~LoopContinues(round)
    /\ result' = MakeResult(FinalText(text_parts, TooManyText), file_attachment)
    /\ pc' = "returned"
    /\ exit' = "budget"
    /\ UNCHANGED <<round, response, text_parts, tool_uses, tool_results,
                   tool_envs, ti, messages, nMessages, file_attachment, called,
                   pdfMade, lastPdf>>
    /\ UNCHANGED <<subVars, applyVars, storeVars, webVars>>

Next ==
    \/ ModelCall
    \/ ModelCallFails
    \/ ExecTool
    \/ AppendToolResults
    \/ BudgetExhausted

Spec == Init /\ [][Next]_vars

\* ---------------------------------------------- _run_computer_use_loop
\* no run_agent call
AgentIdle ==
    /\ pc = "idle"
    /\ exit = ""
    /\ round = 0
    /\ response = None
    /\ text_parts = <<>>
    /\ tool_uses = <<>>
    /\ tool_results = <<>>
    /\ tool_envs = <<>>
    /\ ti = 0
    /\ messages = <<>>
    /\ nMessages = 0
    /\ file_attachment = None
    /\ result = None
    /\ called = <<>>
    /\ pdfMade = FALSE
    /\ lastPdf = None

DidNotComplete == "Job application process did not complete."

\* what the browser, or the model API, says when a call on it fails
GotoError == "Timeout 30000ms exceeded"
BrowserError == "Target page, context or browser has been closed"

\* what leaves async_playwright() / pw.chromium.launch when the driver
\* process or the browser cannot be started: a playwright Error, or the
\* RuntimeError of asyncio's subprocess support
LaunchErrors == { Exc("Error", "Executable doesn't exist"),
                  Exc("RuntimeError", "Cannot add child handler") }

\* points of the page the model aims at
P1 == <<10, 20>>
P2 == <<30, 40>>

\* The inputs of the `computer` tool the model sends: one or more for every
\* arm of the executor (lines 195-415).
ActionInputs ==
    { [action |-> "screenshot"],
      [action |-> "click", coordinate |-> P1],
      [action |-> "click"],
      [action |-> "left_click", coordinate |-> P2],
      [action |-> "right_click", coordinate |-> P1],
      [action |-> "middle_click", coordinate |-> P1],
      [action |-> "double_click", coordinate |-> P2],
      [action |-> "left_click_drag", start_coordinate |-> P1, coordinate |-> P2],
      [action |-> "type", text |-> "Ada"],
      [action |-> "key", key |-> "Return"],
      [action |-> "scroll", coordinate |-> P1, direction |-> "up", amount |-> 2],
      [action |-> "scroll", direction |-> "down"],
      [action |-> "scroll", coordinate |-> P2, direction |-> "left"],
      [action |-> "scroll", coordinate |-> P2, direction |-> "right"],
      [action |-> "cursor_position"],
      [action |-> "drag", start_coordinate |-> P1, end_coordinate |-> P2],
      [action |-> "triple_click", coordinate |-> P1],
      [action |-> "wait", duration |-> 1],
      [action |-> "zoom"] }

SubTexts == { <<>>, <<"Blocked:", "login required.">> }

\* The inputs sent after the first one when a response carries several
\* tool_use blocks: a pointer action and the two actions that call nothing
\* on the browser.
FollowInputs ==
    { [action |-> "left_click", coordinate |-> P2],
      [action |-> "cursor_position"],
      [action |-> "zoom"] }

\* the action inputs of one response
ActionSeqs ==
    {<<>>} \cup
    { <<f>> \o r : f \in ActionInputs,
                  r \in UNION { [1..n -> FollowInputs] : n \in 0..(MaxActions - 1) } }

\* a response: its text blocks, then its tool_use blocks
SubContents ==
    { [i \in 1..(Len(t) + Len(a)) |->
          IF i <= Len(t) THEN [type |-> "text", text |-> t[i]]
          ELSE [type |-> "tool_use", name |-> "computer", input |-> a[i - Len(t)]]] :
      t \in SubTexts, a \in ActionSeqs }

\* one call on the browser: page.screenshot, page.mouse.click, ...
Prim(op, at) == [op |-> op, at |-> at]
Settle == Prim("page.wait_for_timeout", <<>>)
Shot == Prim("page.screenshot", <<>>)

ClickActions == {"click", "left_click", "right_click", "middle_click"}

ImageResult == <<[type |-> "image"]>>
TextResult(t) == <<[type |-> "text", text |-> t]>>

\* the result of an executor arm: the browser calls in order, after which
\* of them (mouse_x, mouse_y) is assigned and to what, the result_content
ArmPlan_NoScreenshot(prims, after, to, res) ==
    [prims |-> SelectSeq(prims, LAMBDA c : c # Shot), setMouseAfter |-> after,
     target |-> to, result |-> res]
ArmPlan(prims, after, to, res) ==
    [prims |-> prims, setMouseAfter |-> after, target |-> to, result |-> res]

\* lines 411-415, the final else
UnknownPlan_Screenshot(a, m) == ArmPlan(<<Shot>>, 0, m, ImageResult)
UnknownPlan(a, m) == ArmPlan(<<>>, 0, m, TextResult("Unknown action: " \o a))

\* What the executor does for one tool_use when no call fails: the browser
\* calls in order, after which of them (mouse_x, mouse_y) is assigned and to
\* what, and the result_content.
Plan(inp, m) ==
    LET a == inp.action
        c == Get(inp, "coordinate", <<0, 0>>)
        s == Get(inp, "start_coordinate", <<0, 0>>)
        e == Get(inp, "end_coordinate", <<0, 0>>)
        sc == Get(inp, "coordinate", <<DISPLAY_WIDTH \div 2, DISPLAY_HEIGHT \div 2>>)
        dir == Get(inp, "direction", "down")
        dragPrims(to) == <<Prim("page.mouse.move", s), Prim("page.mouse.down", <<>>),
                           Prim("page.mouse.move", to), Prim("page.mouse.up", <<>>)>>
        plan(prims, after, to, res) == ArmPlan(prims, after, to, res)
    IN
    IF a = "screenshot" THEN plan(<<Shot>>, 0, m, ImageResult)
    ELSE IF a \in ClickActions
    THEN plan(<<Prim("page.mouse.click", c), Settle, Shot>>, 1, c, ImageResult)
    ELSE IF a = "left_click_drag"
    THEN plan(dragPrims(c) \o <<Settle, Shot>>, 4, c, ImageResult)
    ELSE IF a = "double_click"
    THEN plan(<<Prim("page.mouse.dblclick", c), Settle, Shot>>, 1, c, ImageResult)
    ELSE IF a = "type"
    THEN plan(<<Prim("page.keyboard.type", <<>>), Settle, Shot>>, 0, m, ImageResult)
    ELSE IF a = "key"
    THEN plan(<<Prim("page.keyboard.press", <<>>), Settle, Shot>>, 0, m, ImageResult)
    ELSE IF a = "scroll"
    THEN IF dir \in {"left", "right"}
         THEN plan(<<Prim("page.mouse.move", sc), Prim("page.evaluate", <<>>),
                     Settle, Shot>>, 0, m, ImageResult)
         ELSE plan(<<Prim("page.mouse.move", sc), Prim("page.mouse.wheel", <<>>),
                     Settle, Shot>>, 0, m, ImageResult)
    ELSE IF a = "cursor_position"
    THEN plan(<<>>, 0, m,
              TextResult("Cursor position: (" \o ToString(m[1]) \o ", "
                         \o ToString(m[2]) \o ")"))
    ELSE IF a = "drag"
    THEN plan(dragPrims(e) \o <<Settle, Shot>>, 4, e, ImageResult)
    ELSE IF a = "triple_click"
    THEN plan(<<Prim("page.mouse.click", c), Settle, Shot>>, 1, c, ImageResult)
    ELSE IF a = "wait"
    THEN plan(<<Settle, Shot>>, 0, m, ImageResult)
    ELSE UnknownPlan(a, m)

\* One pass of the executor's try/except for `inp` when the failAt-th browser
\* call raises (0: none does): the calls that returned, the new
\* (mouse_x, mouse_y) and the result_content.
Execute_NoCatch(inp, m, failAt) ==
    LET p == Plan(inp, m) IN
    [done |-> IF failAt = 0 THEN p.prims ELSE SubSeq(p.prims, 1, failAt - 1),
     mouse |-> IF p.setMouseAfter > 0 /\ (failAt = 0 \/ failAt > p.setMouseAfter)
               THEN p.target ELSE m,
     result |-> IF failAt = 0 THEN p.result ELSE <<>>]

Execute(inp, m, failAt) ==
    LET p == Plan(inp, m) IN
    [done |-> IF failAt = 0 THEN p.prims ELSE SubSeq(p.prims, 1, failAt - 1),
     mouse |-> IF p.setMouseAfter > 0 /\ (failAt = 0 \/ failAt > p.setMouseAfter)
               THEN p.target ELSE m,
     result |-> IF failAt = 0 THEN p.result
                ELSE TextResult("Error executing " \o inp.action \o ": "
                                \o BrowserError)]

\* lines 299-338: a horizontal scroll whose browser calls all returned appends
\* its tool_result inside the arm and leaves the pass with `continue`
EarlyContinue(inp, failAt) ==
    /\ inp.action = "scroll"
    /\ Get(inp, "direction", "down") \in {"left", "right"}
    /\ failAt = 0

\* The tool_result blocks one pass of `for tool_use in tool_uses` appends:
\* the arm's own append (313-317, 333-337) and the append that ends the
\* pass (423-427), which `continue` skips.
Appended_NoContinue(tu, res, early) ==
    (IF early THEN <<ToolResultBlock(tu, res)>> ELSE <<>>)
       \o <<ToolResultBlock(tu, res)>>
Appended(tu, res, early) ==
    (IF early THEN <<ToolResultBlock(tu, res)>> ELSE <<>>)
       \o (IF early THEN <<>> ELSE <<ToolResultBlock(tu, res)>>)

\* `"\n".join(text_parts) if text_parts else summary`
SummaryOf(tp, current) == IF tp # <<>> THEN Join("\n", tp) ELSE current

\* `for iteration in range(MAX_ITERATIONS)`: another iteration starts
IterationsLeft_OneMore(it) == it <= MAX_ITERATIONS
IterationsLeft(it) == it < MAX_ITERATIONS

SubInit ==
    /\ AgentIdle
    /\ ApplyIdle
    /\ StoreIdle
    /\ WebIdle
    /\ cu_pc = "launch"
    /\ created = FALSE
    /\ closeCount = 0
    /\ cu_exit = ""
    /\ shotTaken = FALSE
    /\ acted = FALSE
    /\ iteration = 0
    /\ cu_response = <<>>
    /\ cu_tool_uses = <<>>
    /\ cu_text_parts = <<>>
    /\ cu_tool_results = <<>>
    /\ ai = 0
    /\ cu_messages = <<>>
    /\ mouse = <<0, 0>>
    /\ summary = DidNotComplete
    /\ cu_result = ""
    /\ cu_error = NoExc
    /\ uploading = FALSE
    /\ cu_failed = <<>>
    /\ browser_calls = <<>>

\* the exception `msg` leaves _run_computer_use_loop: no handler, no finally
SubRaise(e) ==
    /\ cu_pc' = "raised"
    /\ cu_error' = e

\* lines 102-103: async_playwright() and pw.chromium.launch
Launch ==
    /\ cu_pc = "launch"
    /\ \/ /\ created' = TRUE
          /\ cu_pc' = "newpage"
          /\ UNCHANGED cu_error
       \/ /\ \E e \in LaunchErrors : SubRaise(e)
          /\ UNCHANGED created
    /\ UNCHANGED <<closeCount, cu_exit, shotTaken, acted, iteration,
                   cu_response, cu_tool_uses, cu_text_parts, cu_tool_results,
                   ai, cu_messages, mouse, summary, cu_result>>
    /\ UNCHANGED <<uploading, cu_failed, browser_calls>>
    /\ UNCHANGED <<agentVars, applyVars, storeVars, webVars>>

\* lines 104-117: new_context, new_page, page.on
NewPage ==
    /\ cu_pc = "newpage"
    /\ \/ /\ cu_pc' = "goto"
          /\ UNCHANGED cu_error
       \/ SubRaise(Exc("Error", BrowserError))
    /\ UNCHANGED <<created, closeCount, cu_exit, shotTaken, acted, iteration,
                   cu_response, cu_tool_uses, cu_text_parts, cu_tool_results,
                   ai, cu_messages, mouse, summary, cu_result>>
    /\ UNCHANGED <<uploading, cu_failed, browser_calls>>
    /\ UNCHANGED <<agentVars, applyVars, storeVars, webVars>>

\* lines 119-122: page.goto and the wait; the except arm is NavFailure
Goto ==
    /\ cu_pc = "goto"
    /\ \/ /\ cu_pc' = "screenshot0"
          /\ UNCHANGED cu_exit
       \/ /\ cu_pc' = "navfail"
          /\ cu_exit' = "navfail"
    /\ UNCHANGED <<created, closeCount, shotTaken, acted, iteration,
                   cu_response, cu_tool_uses, cu_text_parts, cu_tool_results,
                   ai, cu_messages, mouse, summary, cu_result, cu_error>>
    /\ UNCHANGED <<uploading, cu_failed, browser_calls>>
    /\ UNCHANGED <<agentVars, applyVars, storeVars, webVars>>

\* lines 122-124: `await browser.close()` then the return, in the handler
NavFailure ==
    /\ cu_pc = "navfail"
    /\ closeCount' = closeCount + 1
    /\ \/ /\ cu_pc' = "done"
          /\ cu_result' = "Failed to load job URL: " \o GotoError
          /\ UNCHANGED cu_error
       \/ /\ SubRaise(Exc("Error", BrowserError))
          /\ UNCHANGED cu_result
    /\ UNCHANGED <<created, cu_exit, shotTaken, acted, iteration,
                   cu_response, cu_tool_uses, cu_text_parts, cu_tool_results,
                   ai, cu_messages, mouse, summary>>
    /\ UNCHANGED <<uploading, cu_failed, browser_calls>>
    /\ UNCHANGED <<agentVars, applyVars, storeVars, webVars>>

\* lines 126-160: the initial screenshot and the first user turn
InitialScreenshot ==
    /\ cu_pc = "screenshot0"
    /\ \/ /\ cu_pc' = "call"
          /\ shotTaken' = TRUE
          /\ cu_messages' = <<Turn("user", <<[type |-> "image"],
                                             [type |-> "text", text |-> "Apply to this job"]>>)>>
          /\ UNCHANGED cu_error
       \/ /\ SubRaise(Exc("Error", BrowserError))
          /\ UNCHANGED <<shotTaken, cu_messages>>
    /\ UNCHANGED <<created, closeCount, cu_exit, acted, iteration,
                   cu_response, cu_tool_uses, cu_text_parts, cu_tool_results,
                   ai, mouse, summary, cu_result>>
    /\ UNCHANGED <<uploading, cu_failed, browser_calls>>
    /\ UNCHANGED <<agentVars, applyVars, storeVars, webVars>>

\* lines 164-183: the model answers; the response ends the loop (break) or
\* is appended as the assistant turn
SubModelCall ==
    /\ cu_pc = "call"
    /\ IterationsLeft(iteration)
    /\ \E c \in SubContents :
          LET content == WithIds(c, iteration + 1)
              tu == ToolUses(content)
              tp == TextParts(content)
          IN /\ iteration' = iteration + 1
             /\ cu_response' = content
             /\ cu_tool_uses' = tu
             /\ cu_text_parts' = tp
             /\ cu_tool_results' = <<>>
             /\ IF tu = <<>>
                THEN /\ summary' = SummaryOf(tp, summary)
                     /\ cu_pc' = "close"
                     /\ cu_exit' = "final"
                     /\ UNCHANGED <<cu_messages, ai>>
                ELSE /\ cu_messages' = <<Turn("assistant", content)>>
                     /\ cu_pc' = "actions"
                     /\ ai' = 1
                     /\ UNCHANGED <<summary, cu_exit>>
    /\ UNCHANGED <<created, closeCount, shotTaken, acted, mouse,
                   cu_result, cu_error>>
    /\ UNCHANGED uploading
    /\ cu_failed' = <<>>
    /\ browser_calls' = <<>>
    /\ UNCHANGED <<agentVars, applyVars, storeVars, webVars>>

\* lines 164-171: client.beta.messages.create raises
SubModelCallFails ==
    /\ cu_pc = "call"
    /\ IterationsLeft(iteration)
    /\ iteration' = iteration + 1
    /\ SubRaise(Exc("APIConnectionError", "Connection error."))
    /\ UNCHANGED <<created, closeCount, cu_exit, shotTaken, acted,
                   cu_response, cu_tool_uses, cu_text_parts, cu_tool_results,
                   ai, cu_messages, mouse, summary, cu_result>>
    /\ UNCHANGED <<uploading, cu_failed, browser_calls>>
    /\ UNCHANGED <<agentVars, applyVars, storeVars, webVars>>

\* The page emits "filechooser" when a click lands on a file input; the
\* listener of line 117 then starts _handle_filechooser with
\* asyncio.ensure_future and returns, nothing awaits the task.
OpensChooser(done) ==
    \E i \in DOMAIN done : done[i].op \in {"page.mouse.click", "page.mouse.dblclick"}

\* lines 187-427: one pass of `for tool_use in tool_uses`
ExecAction ==
    /\ cu_pc = "actions"
    /\ ai <= Len(cu_tool_uses)
    /\ LET tu == cu_tool_uses[ai] IN
       \E failAt \in 0..Len(Plan(tu.input, mouse).prims) :
          LET x == Execute(tu.input, mouse, failAt) IN
          /\ mouse' = x.mouse
          /\ shotTaken' = (shotTaken \/ \E i \in DOMAIN x.done : x.done[i] = Shot)
          /\ cu_failed' = Append(cu_failed, failAt # 0)
          /\ browser_calls' = x.done
          /\ \E fc \in IF OpensChooser(x.done) THEN BOOLEAN ELSE {FALSE} :
                uploading' = (uploading \/ fc)
          /\ cu_tool_results' =
                cu_tool_results \o Appended(tu, x.result, EarlyContinue(tu.input, failAt))
    /\ acted' = TRUE
    /\ ai' = ai + 1
    /\ UNCHANGED <<cu_pc, created, closeCount, cu_exit, iteration, cu_response,
                   cu_tool_uses, cu_text_parts, cu_messages, summary, cu_result,
                   cu_error>>
    /\ UNCHANGED <<agentVars, applyVars, storeVars, webVars>>

\* line 429: messages.append({"role": "user", "content": tool_results})
SubAppendResults ==
    /\ cu_pc = "actions"
    /\ ai > Len(cu_tool_uses)
    /\ cu_messages' = Append(cu_messages, Turn("user", cu_tool_results))
    /\ cu_pc' = "call"
    /\ cu_response' = <<>>
    /\ cu_tool_uses' = <<>>
    /\ cu_text_parts' = <<>>
    /\ cu_tool_results' = <<>>
    /\ ai' = 0
    /\ UNCHANGED <<created, closeCount, cu_exit, shotTaken, acted, iteration,
                   mouse, summary, cu_result, cu_error>>
    /\ UNCHANGED uploading
    /\ cu_failed' = <<>>
    /\ browser_calls' = <<>>
    /\ UNCHANGED <<agentVars, applyVars, storeVars, webVars>>

\* the for loop is exhausted
IterationsExhausted ==
    /\ cu_pc = "call"
    /\ ~IterationsLeft(iteration)
    /\ cu_pc' = "close"
    /\ cu_exit' = "budget"
    /\ UNCHANGED <<created, closeCount, shotTaken, acted, iteration,
                   cu_response, cu_tool_uses, cu_text_parts, cu_tool_results,
                   ai, cu_messages, mouse, summary, cu_result, cu_error>>
    /\ UNCHANGED <<uploading, cu_failed, browser_calls>>
    /\ UNCHANGED <<agentVars, applyVars, storeVars, webVars>>

\* lines 431-433: `await browser.close()` and `return summary`
CloseAndReturn ==
    /\ cu_pc = "close"
    /\ closeCount' = closeCount + 1
    /\ \/ /\ cu_pc' = "done"
          /\ cu_result' = summary
          /\ UNCHANGED cu_error
       \/ /\ SubRaise(Exc("Error", BrowserError))
          /\ UNCHANGED cu_result
    /\ UNCHANGED <<created, cu_exit, shotTaken, acted, iteration,
                   cu_response, cu_tool_uses, cu_text_parts, cu_tool_results,
                   ai, cu_messages, mouse, summary>>
    /\ UNCHANGED <<uploading, cu_failed, browser_calls>>
    /\ UNCHANGED <<agentVars, applyVars, storeVars, webVars>>

\* lines 114-116: fc.set_files returns or raises in the task; nobody
\* reads the outcome
UploadSettles ==
    /\ uploading
    /\ uploading' = FALSE
    /\ UNCHANGED <<cu_pc, created, closeCount, cu_exit, shotTaken, acted,
                   iteration, cu_response, cu_tool_uses, cu_text_parts,
                   cu_tool_results, ai, cu_messages, mouse, summary,
                   cu_result, cu_error, cu_failed, browser_calls>>
    /\ UNCHANGED <<agentVars, applyVars, storeVars, webVars>>

SubNext ==
    \/ Launch
    \/ NewPage
    \/ Goto
    \/ NavFailure
    \/ InitialScreenshot
    \/ SubModelCall
    \/ SubModelCallFails
    \/ ExecAction
    \/ SubAppendResults
    \/ IterationsExhausted
    \/ CloseAndReturn
    \/ UploadSettles

SubSpec == SubInit /\ [][SubNext]_vars

\* ---------------------------------------------------------- apply_to_job
\* How one run of _run_computer_use_loop can end: what it returned or the
\* exception that left it, the exit it took, the calls of browser.close()
\* and the summary it had to report.  These are the end states of SubSpec
\* (SubEndingsCover, checked under SubSpec).
Ending(p, res, err, ex, crt, cls, sm) ==
    [pc |-> p, result |-> res, error |-> err, exit |-> ex, created |-> crt,
     closes |-> cls, summary |-> sm]

NavFailureText == "Failed to load job URL: " \o GotoError

SubEndings ==
    { Ending("raised", "", e, "", FALSE, 0, DidNotComplete) : e \in LaunchErrors }
    \cup
    { Ending("raised", "", e, "", TRUE, 0, DidNotComplete) :
         e \in { Exc("Error", BrowserError),
                 Exc("APIConnectionError", "Connection error.") } }
    \cup
    { Ending("done", NavFailureText, NoExc, "navfail", TRUE, 1, DidNotComplete),
      Ending("raised", "", Exc("Error", BrowserError), "navfail", TRUE, 1,
             DidNotComplete) }
    \cup
    UNION { { Ending("done", SummaryOf(tp, DidNotComplete), NoExc, "final",
                     TRUE, 1, SummaryOf(tp, DidNotComplete)),
              Ending("raised", "", Exc("Error", BrowserError), "final",
                     TRUE, 1, SummaryOf(tp, DidNotComplete)) } : tp \in SubTexts }
    \cup
    { Ending("done", DidNotComplete, NoExc, "budget", TRUE, 1, DidNotComplete),
      Ending("raised", "", Exc("Error", BrowserError), "budget", TRUE, 1,
             DidNotComplete) }

ThisEnding ==
    Ending(cu_pc, cu_result, cu_error, cu_exit, created, closeCount, summary)

\* what SubSpec establishes for ApplySpec
SubEndingsCover == cu_pc \in {"done", "raised"} => ThisEnding \in SubEndings

\* the variables of the run that apply_to_job never sees
subRest == <<shotTaken, acted, iteration, cu_response, cu_tool_uses,
             cu_text_parts, cu_tool_results, ai, cu_messages, mouse, uploading,
             cu_failed, browser_calls>>

LoopStates == {"running", "stopped", "none"}

ApplyInit ==
    /\ AgentIdle
    /\ SubIdle
    /\ StoreIdle
    /\ WebIdle
    /\ ap_pc = "entry"
    /\ loop_state \in LoopStates
    /\ driver = NoDriver
    /\ runs = 0
    /\ expired = FALSE
    /\ ap_result = ""
    /\ ap_error = NoExc

\* line 440: `if loop.is_running()`
UseWorker_Never(ls) == FALSE
UseWorker(ls) == ls = "running"

\* the coroutine of _run_computer_use_loop starts on `thread`, driven by
\* `loop`: "new" is the loop asyncio.run creates, "current" the loop
\* get_event_loop returned
StartRun(thread, loop) ==
    /\ driver' = [thread |-> thread, loop |-> loop]
    /\ runs' = runs + 1
    /\ cu_pc' = "running"
    /\ cu_result' = ""
    /\ cu_error' = NoExc
    /\ cu_exit' = ""
    /\ created' = FALSE
    /\ closeCount' = 0
    /\ summary' = DidNotComplete

RunUnchanged == UNCHANGED <<cu_pc, cu_result, cu_error, cu_exit, created,
                            closeCount, summary, driver, runs>>

ErrorText(e) == "Error during job application: " \o e.msg

Returns(str) ==
    /\ ap_pc' = "returned"
    /\ ap_result' = str
    /\ UNCHANGED ap_error

Raises(e) ==
    /\ ap_pc' = "raised"
    /\ ap_error' = e
    /\ UNCHANGED ap_result

\* lines 438-452, up to the call that blocks: get_event_loop, is_running,
\* then pool.submit(asyncio.run, ...), loop.run_until_complete(...) or,
\* from the except RuntimeError arm, asyncio.run(...)
Bridge ==
    /\ ap_pc = "entry"
    /\ IF loop_state = "none"
       THEN /\ ap_pc' = "fallback"
            /\ StartRun("caller", "new")
       ELSE IF UseWorker(loop_state)
       THEN /\ ap_pc' = "worker"
            /\ StartRun("worker", "new")
       ELSE /\ ap_pc' = "direct"
            /\ StartRun("caller", "current")
    /\ UNCHANGED <<loop_state, expired, ap_result, ap_error>>
    /\ UNCHANGED <<agentVars, subRest, storeVars, webVars>>

\* the run of _run_computer_use_loop comes to its end
SubRunEnds ==
    /\ cu_pc = "running"
    /\ \E e \in SubEndings :
          /\ cu_pc' = e.pc
          /\ cu_result' = e.result
          /\ cu_error' = e.error
          /\ cu_exit' = e.exit
          /\ created' = e.created
          /\ closeCount' = e.closes
          /\ summary' = e.summary
    /\ UNCHANGED <<ap_pc, loop_state, driver, runs, expired, ap_result, ap_error>>
    /\ UNCHANGED <<agentVars, subRest, storeVars, webVars>>

\* 300 s pass while the run is under way.  Only `.result(timeout=300)` of
\* line 445 looks at the clock: it raises TimeoutError inside the `with`
\* block, whose __exit__ (shutdown(wait=True)) joins the worker thread.
ClockExpires ==
    /\ cu_pc = "running"
    /\ ~expired
    /\ expired' = TRUE
    /\ ap_pc' = IF ap_pc = "worker" THEN "joining" ELSE ap_pc
    /\ UNCHANGED <<loop_state, ap_result, ap_error>>
    /\ RunUnchanged
    /\ UNCHANGED <<agentVars, subRest, storeVars, webVars>>

\* the worker thread has finished: __exit__ returns and the TimeoutError
\* reaches `except Exception` (line 453); str(TimeoutError()) is ""
JoinReturns ==
    /\ ap_pc = "joining"
    /\ cu_pc \in {"done", "raised"}
    /\ Returns(ErrorText(Exc("TimeoutError", "")))
    /\ UNCHANGED <<loop_state, expired>>
    /\ RunUnchanged
    /\ UNCHANGED <<agentVars, subRest, storeVars, webVars>>

\* lines 443-446: Future.result hands over what asyncio.run returned or
\* raised in the worker.  A RuntimeError goes to line 452, where asyncio.run
\* refuses to start under the running loop of the calling thread.
WorkerResult ==
    /\ ap_pc = "worker"
    /\ cu_pc \in {"done", "raised"}
    /\ IF cu_pc = "done" THEN Returns(cu_result)
       ELSE IF cu_error.cls = "RuntimeError"
       THEN Raises(Exc("RuntimeError",
                       "asyncio.run() cannot be called from a running event loop"))
       ELSE Returns(ErrorText(cu_error))
    /\ UNCHANGED <<loop_state, expired>>
    /\ RunUnchanged
    /\ UNCHANGED <<agentVars, subRest, storeVars, webVars>>

\* lines 448-450: run_until_complete returns or raises.  A RuntimeError
\* goes to line 452, which runs _run_computer_use_loop again.
DirectResult ==
    /\ ap_pc = "direct"
    /\ cu_pc \in {"done", "raised"}
    /\ IF cu_pc = "done"
       THEN /\ Returns(cu_result)
            /\ RunUnchanged
       ELSE IF cu_error.cls = "RuntimeError"
       THEN /\ ap_pc' = "fallback"
            /\ StartRun("caller", "new")
            /\ UNCHANGED <<ap_result, ap_error>>
       ELSE /\ Returns(ErrorText(cu_error))
            /\ RunUnchanged
    /\ UNCHANGED <<loop_state, expired>>
    /\ UNCHANGED <<agentVars, subRest, storeVars, webVars>>

\* line 452: the asyncio.run of the except arm returns or raises; the arm
\* is outside the try, so what it raises leaves apply_to_job
FallbackResult ==
    /\ ap_pc = "fallback"
    /\ cu_pc \in {"done", "raised"}
    /\ IF cu_pc = "done" THEN Returns(cu_result) ELSE Raises(cu_error)
    /\ UNCHANGED <<loop_state, expired>>
    /\ RunUnchanged
    /\ UNCHANGED <<agentVars, subRest, storeVars, webVars>>

ApplyNext ==
    \/ Bridge
    \/ SubRunEnds
    \/ ClockExpires
    \/ JoinReturns
    \/ WorkerResult
    \/ DirectResult
    \/ FallbackResult

ApplySpec == ApplyInit /\ [][ApplyNext]_vars

\* ------------------------------------------------- serving the senders
StoreInit ==
    /\ AgentIdle
    /\ SubIdle
    /\ ApplyIdle
    /\ WebIdle
    /\ resume_file \in {Missing, Stored(PdfA)}
    /\ resume_writer = ""
    /\ last_read = NoRead
    /\ tool_out = ""
    /\ last_update = NoUpdate

\* run_tool("update_resume", {"attachment_base64": a}) in a run_agent call
\* that answers sender s
ServeUpdateResume ==
    \E s \in Senders, a \in AttachmentStrings, env \in PdfToTextEnvs :
       LET r == update_resume([attachment_base64 |-> a], env, resume_file) IN
       /\ resume_file' = r.file
       /\ resume_writer' = IF r.wrote THEN s ELSE resume_writer
       /\ tool_out' = r.value
       /\ last_update' = [b64 |-> a, before |-> resume_file, out |-> r.value]
       /\ UNCHANGED last_read
       /\ UNCHANGED <<agentVars, subVars, applyVars, webVars>>

\* run_tool("apply_to_job", {"job_url": ...}) in a run_agent call that
\* answers sender s: resume_path takes its default, the file is read by
\* _extract_resume_text (line 95) and uploaded by fc.set_files (line 116)
ServeApplyToJob ==
    \E s \in Senders, env \in PdfToTextEnvs :
       /\ last_read' = [by |-> s, writer |-> resume_writer, file |-> resume_file]
       /\ tool_out' = extract_resume_text(RESUME_PATH, env, resume_file)
       /\ UNCHANGED <<resume_file, resume_writer, last_update>>
       /\ UNCHANGED <<agentVars, subVars, applyVars, webVars>>

StoreNext ==
    \/ ServeUpdateResume
    \/ ServeApplyToJob

StoreSpec == StoreInit /\ [][StoreNext]_vars

\* ------------------------------------------------------- the webhook
MAX_HISTORY == 20
MaxRequests == 3        \* requests handled in one behaviour

RequestTexts == {"hi", "make my cv"}

\* req.attachment: IncomingAttachment | None
IncomingAttachments ==
    { None,
      [base64 |-> "JVBERg==", filename |-> "cv.pdf",
       mimetype |-> "application/pdf"] }

\* claude_agent.py 17: the parameters of run_agent
RunAgentParameters == {"user_message", "conversation_history"}

\* main.py 59: the keyword arguments of the call
CallKeywords == {"conversation_history", "attachment"}

\* How a call of run_agent whose arguments are bound can end: it returns
\* the dict of 47-51 or 83-85, or an exception of messages.create or of a
\* tool leaves it.
AgentEndings ==
    { Return([text |-> "a"]),
      Return([text |-> "I couldn't generate a response."]),
      Return([text |-> "a",
              file |-> [base64 |-> "JVBERg==", filename |-> "cv.pdf",
                        mimetype |-> "application/pdf"]]),
      Raise("Connection error.") }

\* The call of line 59: Python binds the arguments to the parameters before
\* the body runs and raises TypeError for a keyword that names none.
CallRunAgent(keywords) ==
    IF keywords \subseteq RunAgentParameters
    THEN AgentEndings
    ELSE { Raise("run_agent() got an unexpected keyword argument '"
                 \o (CHOOSE k \in keywords : k \notin RunAgentParameters)
                 \o "'") }

\* {"role": ..., "content": text}
TextTurn(role, text) == [role |-> role, content |-> text]

\* lines 66-67: keep the last MAX_HISTORY * 2 entries
Trim(h) ==
    IF Len(h) > MAX_HISTORY * 2
    THEN SubSeq(h, Len(h) - MAX_HISTORY * 2 + 1, Len(h))
    ELSE h

\* The stored history of the sender after the try block of 47-78: the two
\* appends and the trim follow the return of run_agent; the except arm does
\* not touch conversations.
HistoryAfter_SavesUserFirst(h, user_message, out) ==
    IF out.kind = "raise" THEN Append(h, TextTurn("user", user_message))
    ELSE Trim(h \o <<TextTurn("user", user_message),
                     TextTurn("assistant", out.value.text)>>)
HistoryAfter(h, user_message, out) ==
    IF out.kind = "raise" THEN h
    ELSE Trim(h \o <<TextTurn("user", user_message),
                     TextTurn("assistant", out.value.text)>>)

\* WebhookResponse(reply, file), or HTTPException(500, detail=str(e))
Answer(out) ==
    IF out.kind = "raise" THEN [status |-> 500, detail |-> out.msg]
    ELSE [status |-> 200, reply |-> out.value.text,
          file |-> Get(out.value, "file", None)]

WebInit ==
    /\ AgentIdle
    /\ SubIdle
    /\ ApplyIdle
    /\ StoreIdle
    /\ WebIdle

\* POST /webhook, lines 41-78.  The handler awaits nothing, so the requests
\* are handled one after the other.
Webhook ==
    /\ Len(served) < MaxRequests
    /\ \E s \in Senders, t \in RequestTexts, a \in IncomingAttachments :
          \E out \in CallRunAgent(CallKeywords) :
             /\ conversations' =
                   [conversations EXCEPT ![s] = HistoryAfter(@, t, out)]
             /\ http' = Answer(out)
             /\ served' = Append(served, [sender |-> s, text |-> t,
                                          attachment |-> a # None,
                                          status |-> Answer(out).status])
    /\ UNCHANGED <<agentVars, subVars, applyVars, storeVars>>

WebNext == Webhook

WebSpec == WebInit /\ [][WebNext]_vars

\* ==================================================================
\* Properties of run_tool and run_agent (checked under Spec)
\* ==================================================================
Range(seq) == { seq[i] : i \in DOMAIN seq }

Registered(name) == name \in DOMAIN TOOLS

\* the tool calls of this iteration that have a result: the i-th result
\* answers the i-th tool_use
Executed == 1..Len(tool_results)

\* C1: for a tool name that is not a key of TOOLS, run_tool returns a string
\* carrying the "Unknown tool" indicator, invokes no registered callable, and
\* no exception leaves it.
C1_UnknownToolIsReported ==
    /\ \A i \in Executed :
          ~Registered(tool_uses[i].name) =>
             /\ Contains(tool_results[i].content, "Unknown tool")
             /\ Contains(tool_results[i].content, tool_uses[i].name)
             /\ tool_uses[i].id \notin Range(called)
    /\ (pc = "raised" /\ exit = "tool_error") => Registered(tool_uses[ti].name)

C1_Witness ==
    /\ pc = "tools"
    /\ \E i \in Executed : ~Registered(tool_uses[i].name)

\* what the registered callable of the i-th tool call did
Outcome(i) == CallFunction(tool_uses[i].name, tool_uses[i].input, tool_envs[i])

\* C2: when the callable of a registered tool raises (also when the input's
\* keys do not match its parameters), run_tool returns a string containing
\* the exception's message and no exception reaches the loop of run_agent.
C2_RaisingToolIsReported ==
    /\ \A i \in Executed :
          (Registered(tool_uses[i].name) /\ Outcome(i).kind = "raise") =>
             Contains(tool_results[i].content, Outcome(i).msg)
    /\ exit # "tool_error"

C2_Witness ==
    /\ pc = "tools"
    /\ \E i, j \in Executed :
          /\ Registered(tool_uses[i].name) /\ Registered(tool_uses[j].name)
          /\ ~Binds(tool_uses[i].name, tool_uses[i].input)
          /\ Binds(tool_uses[j].name, tool_uses[j].input)
          /\ Outcome(i).kind = "raise"
          /\ Outcome(j).kind = "raise"

\* the steps run_agent can still take: one model call, at most MaxBlocks
\* tool executions and one append per remaining iteration
Rank ==
    IF pc \in {"returned", "raised"} THEN 0
    ELSE 1 + (MAX_TOOL_ROUNDS - round) * (MaxBlocks + 2)
           + (IF pc = "tools" THEN Len(tool_uses) - ti + 2 ELSE 0)

\* C3: whatever the model answers, run_agent makes at most MAX_TOOL_ROUNDS
\* model calls (round counts them) and ends: every step lowers Rank, a step
\* is possible until the run has ended, and a run that returns hands back a
\* dict with a 'text' field.
C3_TerminatesWithinBudget ==
    /\ [](round <= MAX_TOOL_ROUNDS)
    /\ [](Rank >= 0)
    /\ [][Rank' < Rank]_vars
    /\ [](pc \notin {"returned", "raised"} => ENABLED Next)
    /\ [](pc = "returned" => "text" \in DOMAIN result)

C3_Witness ==
    /\ pc = "returned"
    /\ exit = "budget"
    /\ round = MAX_TOOL_ROUNDS

\* the turns in the conversation when the `round`-th response arrived
TurnsBefore(r) == 1 + 2 * (r - 1)

NoToolUse == response # None /\ ToolUses(response.content) = <<>>

\* C4 as stated: a response without tool_use blocks ends the loop on that
\* round, appends nothing, and the returned text is the concatenation of the
\* round's text blocks, for any number of them.
C4_ReturnsConcatenation ==
    NoToolUse =>
       /\ pc = "returned"
       /\ nMessages = TurnsBefore(round)
       /\ result.text = Concat(TextParts(response.content))

\* C4 amended: ... the returned text is the round's text blocks joined by
\* "\n", or "I couldn't generate a response." when there is none.
C4_ReturnsJoinedOrFallback ==
    /\ pc = "tools" => ~NoToolUse
    /\ NoToolUse =>
          /\ pc = "returned"
          /\ exit = "stop"
          /\ nMessages = TurnsBefore(round)
          /\ messages[Len(messages)].role = "user"
          /\ result.text =
                IF TextParts(response.content) = <<>>
                THEN "I couldn't generate a response."
                ELSE Join("\n", TextParts(response.content))

C4_Witness ==
    /\ pc = "returned"
    /\ NoToolUse
    /\ round >= 2
    /\ Len(TextParts(response.content)) >= 2

UseIds(turn) ==
    LET tu == SelectSeq(turn.content, LAMBDA b : b.type = "tool_use")
    IN [i \in 1..Len(tu) |-> tu[i].id]

ResultIds(turn) ==
    LET tr == SelectSeq(turn.content, LAMBDA b : b.type = "tool_result")
    IN [i \in 1..Len(tr) |-> tr[i].tool_use_id]

Distinct(seq) == \A i, j \in DOMAIN seq : seq[i] = seq[j] => i = j

\* C5: at every model call and at return, each appended assistant turn is
\* followed at once by a user turn whose tool_result blocks answer the
\* assistant turn's tool_use blocks one for one, in the same order.
C5_ToolUsesAreAnswered ==
    pc \in {"call", "returned"} =>
       \A i \in 1..Len(messages) :
          messages[i].role = "assistant" =>
             /\ i < Len(messages)
             /\ messages[i + 1].role = "user"
             /\ Distinct(UseIds(messages[i]))
             /\ ResultIds(messages[i + 1]) = UseIds(messages[i])

C5_Witness ==
    /\ pc = "call"
    /\ round >= 1
    /\ Len(messages) = 2
    /\ messages[1].role = "assistant"
    /\ Len(UseIds(messages[1])) >= 2
    /\ Len(TextParts(messages[1].content)) = 0

\* the text blocks of the last response that was appended
LastTexts == TextParts(messages[1].content)

\* C7 as stated: when the round budget is exhausted the returned text
\* carries the too-many-tool-calls message, whatever the last response held.
C7_BudgetMessageAlways ==
    (pc = "returned" /\ exit = "budget") =>
       Contains(result.text, "too many tool calls")

\* C7 amended: when the round budget is exhausted run_agent returns
\* normally; the text is the too-many-tool-calls message only if the last
\* response had no text block, and otherwise that response's text blocks
\* joined by "\n", without the message.
C7_BudgetMessageOnlyWithoutText ==
    (exit = "budget") =>
       /\ pc = "returned"
       /\ round = MAX_TOOL_ROUNDS
       /\ messages[1].role = "assistant"
       /\ result.text =
             IF LastTexts = <<>>
             THEN "I used too many tool calls. Please try a simpler question."
             ELSE Join("\n", LastTexts)
       /\ LastTexts # <<>> => ~Contains(result.text, "too many tool calls")

C7_Witness ==
    /\ pc = "returned"
    /\ exit = "budget"
    /\ LastTexts = <<>>
    /\ Contains(result.text, "too many tool calls")

\* C8: run_agent's result carries a 'file' (payload, filename, mimetype)
\* exactly when some compile_latex call of the run returned a success
\* payload with base64 content, however the loop ended.
C8_FileIffPdfCompiled ==
    pc = "returned" =>
       /\ pdfMade <=> "file" \in DOMAIN result
       /\ "file" \in DOMAIN result =>
             /\ DOMAIN result.file = {"base64", "filename", "mimetype"}
             /\ result.file.base64 = b64encode("%PDF")
             /\ result.file.filename \in {"cv.pdf", "document.pdf"}
             /\ result.file.mimetype = "application/pdf"

C8_Witness ==
    /\ pc = "returned"
    /\ exit = "budget"
    /\ "file" \in DOMAIN result
    /\ file_attachment.filename = "cv.pdf"

\* ==================================================================
\* Properties of _run_computer_use_loop (checked under SubSpec)
\* ==================================================================
SubEnded == cu_pc \in {"done", "raised"}

\* C6: in every run in which the browser was created, browser.close() is
\* called exactly once, however the run ends: final text, navigation
\* failure, exhausted budget, or an exception raised after the creation.
C6_ClosedExactlyOnce ==
    (SubEnded /\ created) => closeCount = 1

\* C9: when loading the URL fails, the run returns the navigation-failure
\* summary, the session is released, and the Observing/Acting cycle is never
\* entered: no screenshot, no model call, no action.
C9_NavFailureIsReported ==
    (cu_exit = "navfail" /\ SubEnded) =>
       /\ cu_pc = "done"
       /\ Contains(cu_result, "Failed to load job URL")
       /\ closeCount = 1
       /\ ~shotTaken
       /\ iteration = 0
       /\ ~acted

\* C10: no run makes more than MAX_ITERATIONS model calls; when the model
\* asks for an action on every turn the loop makes exactly MAX_ITERATIONS
\* calls, then exits with the "did not complete" summary and releases the
\* session.
C10_FullBudgetRun ==
    /\ iteration <= MAX_ITERATIONS
    /\ cu_exit = "budget" => iteration = MAX_ITERATIONS
    /\ (cu_exit = "budget" /\ SubEnded) =>
          /\ cu_pc = "done"
          /\ cu_result = "Job application process did not complete."
          /\ closeCount = 1


\* ------------------------------------------------------------------
\* C11 (apply_to_job.py 173-180): the loop stops at the first response
\* without a tool_use block: after it no model call and no action happens,
\* and the run returns the text of that response.
FinalSeen == cu_exit = "final"

C11_StopsAtFirstFinalResponse ==
    FinalSeen =>
       /\ cu_tool_uses = <<>>
       /\ cu_pc \in {"close", "done", "raised"}
       /\ SubEnded => (cu_pc = "done" /\ cu_result = Join("\n", cu_text_parts))

\* ------------------------------------------------------------------
\* C12 (apply_to_job.py 411-429): a tool_use whose action no arm of the
\* executor knows gets the text "Unknown action: <action>" as its
\* tool_result, nothing is raised, the loop goes on to the next model call,
\* and the iteration count grows by one per model call whatever the actions.
KnownActions ==
    ClickActions \cup
    {"screenshot", "double_click", "left_click_drag", "type", "key", "scroll",
     "cursor_position", "drag", "triple_click", "wait"}

IsUnknown(tu) == tu.input.action \notin KnownActions

ExecutedActions == 1..Len(cu_tool_results)

HasUnknown == \E i \in DOMAIN cu_tool_uses : IsUnknown(cu_tool_uses[i])

UnknownIsObserved ==
    /\ \A i \in ExecutedActions :
          IsUnknown(cu_tool_uses[i]) =>
             /\ cu_tool_results[i].content =
                   <<[type |-> "text",
                      text |-> "Unknown action: " \o cu_tool_uses[i].input.action]>>
             /\ cu_tool_results[i].tool_use_id = cu_tool_uses[i].id
             /\ ~cu_failed[i]
    /\ HasUnknown => (cu_pc = "actions" /\ cu_exit = "")

TurnEnds == cu_tool_uses # <<>> /\ cu_tool_uses' = <<>>

OneIterationPerCall ==
    /\ iteration' # iteration => (cu_pc = "call" /\ iteration' = iteration + 1)
    /\ (HasUnknown /\ TurnEnds) =>
          /\ cu_pc' = "call"
          /\ iteration' = iteration
          /\ Len(cu_tool_results) = Len(cu_tool_uses)

C12_UnknownActionIsObserved == []UnknownIsObserved /\ [][OneIterationPerCall]_vars

C12_Witness ==
    /\ Len(cu_tool_uses) = 2
    /\ IsUnknown(cu_tool_uses[1])
    /\ ~IsUnknown(cu_tool_uses[2])
    /\ Len(cu_tool_results) = 2
    /\ iteration = 2

\* ------------------------------------------------------------------
\* C13 (apply_to_job.py 187-429): when a browser call raises inside one
\* action, that action's tool_result is the text "Error executing <action>:
\* <error>", the later actions of the turn are still executed in order, and
\* the loop goes on to the next model call.
FailureIsObserved ==
    /\ Len(cu_failed) = Len(cu_tool_results)
    /\ Len(cu_tool_results) <= Len(cu_tool_uses)
    /\ \A i \in ExecutedActions :
          /\ cu_tool_results[i].tool_use_id = cu_tool_uses[i].id
          /\ cu_failed[i] =>
                cu_tool_results[i].content =
                   <<[type |-> "text",
                      text |-> "Error executing " \o cu_tool_uses[i].input.action
                               \o ": " \o BrowserError]>>
    /\ (\E i \in DOMAIN cu_failed : cu_failed[i]) =>
          /\ cu_pc = "actions"
          /\ ai = Len(cu_tool_results) + 1

TurnGoesOn ==
    /\ (cu_pc = "actions" /\ Len(cu_tool_results') > Len(cu_tool_results)) =>
          /\ cu_tool_results' =
                Append(cu_tool_results, cu_tool_results'[Len(cu_tool_results) + 1])
          /\ cu_pc' = "actions"
    /\ TurnEnds =>
          /\ Len(cu_tool_results) = Len(cu_tool_uses)
          /\ cu_pc' = "call"
          /\ cu_messages'[Len(cu_messages')].content =
                [i \in DOMAIN cu_tool_uses |->
                    [type |-> "tool_result", tool_use_id |-> cu_tool_uses[i].id]]

C13_ActionFailureIsObserved == []FailureIsObserved /\ [][TurnGoesOn]_vars

C13_Witness ==
    /\ Len(cu_tool_uses) = 2
    /\ cu_failed = <<TRUE, FALSE>>
    /\ cu_tool_uses[1].input.action = "left_click"
    /\ cu_tool_results[2].content # cu_tool_results[1].content


\* ------------------------------------------------------------------
\* C19 (apply_to_job.py 113-117, 187-431): the operations on the browser
\* are strictly sequential: no upload started by the filechooser listener
\* is in flight while an action of the model is executed, and none is
\* pending when browser.close() is called.
ActionDue == cu_pc = "actions" /\ ai <= Len(cu_tool_uses)

C19_BrowserOperationsAreSequential ==
    /\ ActionDue => ~uploading
    /\ closeCount > 0 => ~uploading


\* ==================================================================
\* Properties of apply_to_job (checked under ApplySpec)
\* ==================================================================
ApplyEnded == ap_pc \in {"returned", "raised"}

\* the run called browser.close() and the call raised
CloseFailed == cu_pc = "raised" /\ closeCount = 1

\* what the run had to report when it called browser.close()
TrueSummary == IF cu_exit = "navfail" THEN NavFailureText ELSE summary

\* ------------------------------------------------------------------
\* C14 (apply_to_job.py 119-124, 431-454): when browser.close() raises, on
\* whichever exit path, the failure does not leave the run and apply_to_job
\* still returns the true summary (the model's summary, the navigation
\* failure message or "did not complete"), without the failure in it.
C14_ReleaseFailureIsAbsorbed ==
    /\ closeCount = 1 => cu_pc # "raised"
    /\ (ApplyEnded /\ CloseFailed) =>
          (ap_pc = "returned" /\ ap_result = TrueSummary)

\* ------------------------------------------------------------------
\* C16 (apply_to_job.py 436-454): apply_to_job always returns a str and
\* never raises, however the sub-agent run fails and on every bridging
\* path, the one taken after get_event_loop raised RuntimeError included.
C16_AlwaysReturnsString == ApplyEnded => ap_pc = "returned"

\* ------------------------------------------------------------------
\* C17 (apply_to_job.py 438-454): when the 300 s of an invocation run out
\* before the sub-agent loop has finished, apply_to_job returns a status
\* string without waiting for the loop, on the worker-thread path and on
\* the direct paths alike.
C17_TimeoutTruncates == expired => ap_pc = "returned"

\* ------------------------------------------------------------------
\* C18 (apply_to_job.py 436-454, main.py 41-59): the sub-agent loop runs on
\* a worker thread with an event loop of its own exactly when an event loop
\* is running on the calling thread, otherwise directly on the calling
\* thread; it is never driven by, or started under, a running event loop.
C18_WorkerIffLoopRunning ==
    /\ ap_pc # "entry" => driver # NoDriver
    /\ driver # NoDriver =>
          /\ driver.thread = "worker" <=> loop_state = "running"
          /\ driver.thread = "caller" <=> loop_state # "running"
          /\ driver.thread = "worker" => driver.loop = "new"
          /\ driver.loop = "current" => loop_state = "stopped"
    /\ runs > 1 => loop_state = "stopped"

C18_Witness ==
    /\ loop_state = "running"
    /\ driver = [thread |-> "worker", loop |-> "new"]
    /\ cu_error.cls = "RuntimeError"
    /\ ap_pc = "raised"
    /\ runs = 1

\* ==================================================================
\* Further properties of run_agent (checked under Spec)
\* ==================================================================
\* C15 (claude_agent.py 27-34): when client.messages.create fails with an
\* API error, the call is not retried and run_agent ends with a returned
\* error summary instead of letting the exception reach its caller.
C15_ModelFailureIsSummarised ==
    exit = "model_error" => (pc = "returned" /\ result # None)


\* ==================================================================
\* Properties of the stored resume (checked under StoreSpec)
\* ==================================================================
\* C20 (update_resume.py 8-43, apply_to_job.py 436, main.py 15-67): requests
\* of different senders are independent: what a tool call made for one
\* sender writes is never read while another sender is served; the resume
\* that apply_to_job reads for a sender was stored for that sender.
C20_SendersAreIndependent ==
    last_read # NoRead => last_read.writer \in {"", last_read.by}


\* ------------------------------------------------------------------
\* C21 (update_resume.py 30-43), as stated: update_resume accepts an input
\* exactly when its decoded bytes begin with the 4 bytes "%PDF"; a rejected
\* input returns an error string and leaves the stored file as it was, an
\* accepted one makes the stored file equal to the decoded bytes.
Updated == last_update # NoUpdate

Decoded == b64decode(last_update.b64)

BeginsWith(bytes, sig) ==
    Len(bytes) >= Len(sig) /\ SubSeq(bytes, 1, Len(sig)) = sig

IsErrorString(str) == BeginsWith(str, "Error: ")

\* the call either took the input (file = its bytes, no error string) or
\* refused it (file as before, error string), the former exactly when
\* `accepted`
UpdateOutcome(accepted) ==
    IF accepted
    THEN /\ resume_file = Stored(Decoded.value)
         /\ ~IsErrorString(last_update.out)
    ELSE /\ resume_file = last_update.before
         /\ IsErrorString(last_update.out)

C21_AcceptsFourByteSignature ==
    Updated =>
       UpdateOutcome(Decoded.kind = "return" /\ BeginsWith(Decoded.value, "%PDF"))

\* C21, amended: the same with the 5 bytes "%PDF-" as the signature.
C21_AcceptsFiveByteSignature ==
    Updated =>
       UpdateOutcome(Decoded.kind = "return" /\ BeginsWith(Decoded.value, "%PDF-"))

C21_Witness ==
    /\ Updated
    /\ Decoded.kind = "return"
    /\ Decoded.value = PdfB
    /\ last_update.before = Stored(PdfA)
    /\ resume_file = Stored(PdfB)


\* ==================================================================
\* Further properties of run_agent (checked under Spec)
\* ==================================================================
\* C22 (claude_agent.py 45-64), as stated: every tool_use block of a
\* response run_agent received is executed exactly once, in order, before
\* the next model call or the return, also when the response came with
\* stop_reason "end_turn".
RunToolCalls == Len(tool_envs)

ExecutedInOrder ==
    /\ RunToolCalls = Len(tool_results)
    /\ RunToolCalls <= Len(tool_uses)
    /\ \A i \in 1..Len(tool_results) :
          tool_results[i].tool_use_id = tool_uses[i].id

RoundEnds == tool_uses # <<>> /\ tool_uses' = <<>>

AllExecutedAtRoundEnd ==
    /\ RoundEnds => (RunToolCalls = Len(tool_uses) /\ pc' = "call")
    /\ (pc = "tools" /\ RunToolCalls' # RunToolCalls /\ ~RoundEnds) =>
          (RunToolCalls' = RunToolCalls + 1 /\ round' = round)
    /\ round' # round => (pc = "call" /\ tool_uses = <<>>)

C22_EveryToolUseIsExecuted ==
    /\ ExecutedInOrder
    /\ (pc = "returned" /\ exit = "stop") => RunToolCalls = Len(tool_uses)

\* C22, amended: the tool_use blocks of a response whose stop_reason is not
\* "end_turn" are executed exactly once each, in order, before the next
\* model call or the return; a response with stop_reason "end_turn" ends
\* the run and none of its tool_use blocks is executed.
StopsRun == response # None /\ response.stop_reason = "end_turn"

ExecutedUnlessEndTurn ==
    /\ ExecutedInOrder
    /\ pc = "tools" => ~StopsRun
    /\ (pc = "returned" /\ exit = "stop") =>
          /\ RunToolCalls = 0
          /\ (StopsRun \/ tool_uses = <<>>)

C22_ToolUsesExecutedUnlessEndTurn ==
    []ExecutedUnlessEndTurn /\ [][AllExecutedAtRoundEnd]_vars

C22_Witness ==
    /\ pc = "tools"
    /\ Len(tool_uses) = 2
    /\ RunToolCalls = 2
    /\ round = 2


\* ==================================================================
\* Further properties of the sub-agent loop (checked under SubSpec)
\* ==================================================================
\* C23 (apply_to_job.py 182-429): whenever the sub-agent is about to call
\* the model, every tool_use of the assistant turn appended last is matched
\* by exactly one tool_result with the same id in the user turn that
\* follows it, in the same order; during a turn the results appended so far
\* match the executed tool_use blocks one to one, whatever path each pass
\* took (normal end, `continue` of a horizontal scroll, unknown action,
\* exception handler).
IsToolUse(b) == b.type = "tool_use"

MatchedTurns ==
    LET n == Len(cu_messages) IN
    /\ cu_messages[n].role = "user"
    /\ n > 1 =>
          LET uses == SelectSeq(cu_messages[n - 1].content, IsToolUse) IN
          /\ cu_messages[n - 1].role = "assistant"
          /\ uses # <<>>
          /\ cu_messages[n].content =
                [i \in DOMAIN uses |->
                    [type |-> "tool_result", tool_use_id |-> uses[i].id]]

ResultsSoFarMatch ==
    /\ Len(cu_tool_results) = ai - 1
    /\ \A i \in DOMAIN cu_tool_results :
          /\ i <= Len(cu_tool_uses)
          /\ cu_tool_results[i].type = "tool_result"
          /\ cu_tool_results[i].tool_use_id = cu_tool_uses[i].id

C23_EveryToolUseHasOneResult ==
    /\ cu_pc = "call" => MatchedTurns
    /\ cu_pc = "actions" => ResultsSoFarMatch

C23_Witness ==
    /\ cu_pc = "actions"
    /\ Len(cu_tool_uses) = 2
    /\ ai = 3
    /\ EarlyContinue(cu_tool_uses[1].input, IF cu_failed[1] THEN 1 ELSE 0)
    /\ IsUnknown(cu_tool_uses[2])
    /\ iteration = 2


\* C24 (apply_to_job.py 207-224, 291-358): cursor_position reports the
\* point where the most recent successfully executed pointer-moving action
\* of the run left the pointer -- click variants, double and triple click,
\* drag, and scroll, which moves the pointer to its coordinate -- or (0, 0)
\* if there was none.  Stated on the tracked location (mouse_x, mouse_y):
\* it starts at (0, 0), every successful pointer-moving action leaves it at
\* the point that action moved the pointer to, and cursor_position reports
\* it.
PointerActions ==
    ClickActions \cup {"double_click", "triple_click", "left_click_drag",
                       "drag", "scroll"}

\* where the action's last page.mouse call leaves the pointer
PointerAfter(inp) ==
    IF inp.action = "drag" THEN Get(inp, "end_coordinate", <<0, 0>>)
    ELSE IF inp.action = "scroll"
    THEN Get(inp, "coordinate", <<DISPLAY_WIDTH \div 2, DISPLAY_HEIGHT \div 2>>)
    ELSE Get(inp, "coordinate", <<0, 0>>)

PassDone == cu_pc = "actions" /\ ai' = ai + 1

TracksPointer ==
    PassDone =>
       LET inp == cu_tool_uses[ai].input
           ok == ~cu_failed'[ai]
       IN /\ (ok /\ inp.action \in PointerActions) => mouse' = PointerAfter(inp)
          /\ inp.action = "cursor_position" =>
                /\ mouse' = mouse
                /\ cu_tool_results'[ai].content =
                      TextResult("Cursor position: (" \o ToString(mouse[1])
                                 \o ", " \o ToString(mouse[2]) \o ")")

C24_CursorPositionReportsPointer ==
    [](cu_pc = "launch" => mouse = <<0, 0>>) /\ [][TracksPointer]_vars


\* C25 (apply_to_job.py 194-427): for every successfully executed
\* state-changing action (click variants, double and triple click, both
\* drags, type, key, scroll in any direction, wait) the tool_result is a
\* screenshot taken in the same pass of the executor, after the calls that
\* carry out the action and so before any later action or model call;
\* cursor_position and unknown actions take no screenshot and return text
\* only.
StateChanging ==
    ClickActions \cup {"double_click", "triple_click", "left_click_drag", "drag",
                       "type", "key", "scroll", "wait"}

ShotsIn(calls) == { i \in DOMAIN calls : calls[i] = Shot }

ObservedAfterEffect(calls) ==
    /\ Len(calls) >= 2
    /\ ShotsIn(calls) = {Len(calls)}

TextOnly(content) ==
    /\ content # <<>>
    /\ \A i \in DOMAIN content : content[i].type = "text"

LastPass == ai - 1

C25_ScreenshotAfterEachEffect ==
    (cu_pc = "actions" /\ LastPass >= 1) =>
       LET inp == cu_tool_uses[LastPass].input
           res == cu_tool_results[LastPass]
       IN /\ (inp.action \in StateChanging /\ ~cu_failed[LastPass]) =>
                /\ res.content = ImageResult
                /\ res.tool_use_id = cu_tool_uses[LastPass].id
                /\ ObservedAfterEffect(browser_calls)
          /\ (inp.action = "cursor_position" \/ IsUnknown(cu_tool_uses[LastPass])) =>
                /\ browser_calls = <<>>
                /\ TextOnly(res.content)

C25_Witness ==
    /\ cu_pc = "actions"
    /\ LastPass = 2
    /\ cu_tool_uses[1].input.action = "scroll"
    /\ cu_tool_uses[2].input.action = "left_click"
    /\ cu_failed = <<FALSE, FALSE>>
    /\ browser_calls = <<Prim("page.mouse.click", P2), Settle, Shot>>


\* ==================================================================
\* Further properties of apply_to_job (checked under ApplySpec)
\* ==================================================================
\* C26 (apply_to_job.py 436-454): one apply_to_job invocation starts
\* _run_computer_use_loop, and with it a browser session, at most once,
\* whatever the run raises, a RuntimeError included.
C26_StartsSubAgentAtMostOnce == runs <= 1


\* ==================================================================
\* The attachment of run_agent (checked under Spec)
\* ==================================================================
\* C27 (claude_agent.py 56-79): the attachment run_agent holds, and returns
\* as 'file', is the one produced by the last compile_latex invocation of
\* the call, over all rounds, that returned a success payload with base64
\* content; a later compile_latex invocation that fails or returns an error
\* string neither clears nor replaces it, and no other tool's result sets
\* it.
SetsAttachment == file_attachment' # file_attachment

OnlyCompileLatexSets ==
    SetsAttachment =>
       /\ pc = "tools"
       /\ tool_uses[ti].name = "compile_latex"
       /\ tool_envs'[ti].kind = "response"
       /\ tool_envs'[ti].status = 200
       /\ file_attachment' # None

AttachmentIsLastPdf ==
    /\ file_attachment = lastPdf
    /\ pc = "returned" =>
          /\ lastPdf # None => ("file" \in DOMAIN result /\ result.file = lastPdf)
          /\ lastPdf = None => "file" \notin DOMAIN result

C27_AttachmentIsLastSuccessfulCompile ==
    []AttachmentIsLastPdf /\ [][OnlyCompileLatexSets]_vars

C27_Witness ==
    /\ pc = "tools"
    /\ round = 2
    /\ ti = 3
    /\ tool_uses[1].name = "compile_latex"
    /\ tool_uses[2].name = "compile_latex"
    /\ tool_envs[1].kind = "response"
    /\ tool_envs[1].status = 200
    /\ tool_envs[2].kind = "response"
    /\ tool_envs[2].status = 400
    /\ file_attachment # None
    /\ file_attachment.filename = "cv.pdf"


\* ==================================================================
\* Properties of the webhook (checked under WebSpec)
\* ==================================================================
\* C28 (main.py 41-78): after any sequence of requests every sender's
\* stored history is a sequence of (user text, assistant reply text) pairs
\* of at most 2 * MAX_HISTORY entries, without tool_use or tool_result
\* turns; a request whose run_agent call raises leaves every stored history
\* as it was, and no request changes the history of another sender.
IsTextTurn(turn, role) ==
    /\ DOMAIN turn = {"role", "content"}
    /\ turn.role = role
    /\ turn.content \in STRING

PairsOnly(h) ==
    /\ Len(h) % 2 = 0
    /\ Len(h) <= 2 * MAX_HISTORY
    /\ \A i \in DOMAIN h :
          IsTextTurn(h[i], IF i % 2 = 1 THEN "user" ELSE "assistant")

Handled == served' # served

OthersUntouched ==
    Handled =>
       LET req == served'[Len(served')] IN
       /\ req.status = 500 => conversations' = conversations
       /\ \A s \in Senders \ {req.sender} : conversations'[s] = conversations[s]

====
